---- MODULE Spec2Model ----
(***************************************************************************)
(* Model of the tabular record transformation scripts of the repository:   *)
(*   DynamoScript.py         columnar cable schedule -> zipped OUT rows    *)
(*   Hello.py                csv copy with blank-row filter                *)
(*   PowerCAD_EFLI.py        csv load into an in-memory sqlite table       *)
(*   Timesheet_Functions.py  clean_data on a timesheet dataframe           *)
(* One behaviour is one run of one script; `script` says which.            *)
(***************************************************************************)
EXTENDS Integers, Sequences, FiniteSets, TLC

VARIABLES
    script,     \* which script this run executes
    pc,         \* position of the run in the script
    IN_,        \* DynamoScript: the node inputs IN[0..15]
    cols,       \* DynamoScript: the 30 column lists, in zip order
    i,          \* DynamoScript: loop index of enumerate(indexList)
    OUT,        \* DynamoScript: the node output (Unassigned until the zip)
    file_path,  \* csv scripts: the path of the input file
    infile,     \* csv scripts: the input file (NoFile: there is no such file)
    stream,     \* csv scripts: the text of the input file as the open file gives it
    pos,        \* csv scripts: how many characters of it the reader has consumed
    consumed,   \* csv scripts: the rows the reader has yielded so far
    outfile,    \* Hello: the file my_file_utf8.csv (NoFile: there is none)
    stdout,     \* csv scripts: what print() has written
    events,     \* csv scripts: what was done to which row, in order
    firstRow,   \* PowerCAD_EFLI: the firstRow flag
    table,      \* csv scripts: the table of the in-memory database (NoTable: none)
    run,        \* Hello: 1 for the first run, 2 for a run on the previous output
    prevOut,    \* Hello: the output file of the previous run
    df          \* Timesheet_Functions: the dataframe of clean_data

dynamoVars == <<IN_, cols, i, OUT>>
csvVars == <<file_path, infile, stream, pos, consumed, outfile, stdout, events, firstRow,
             table, run, prevOut>>
vars == <<script, pc, IN_, cols, i, OUT, file_path, infile, stream, pos, consumed, outfile, stdout,
          events, firstRow, table, run, prevOut, df>>

\* ---------------------------------------------------------------- bounds
MaxRows == 2
MaxLines == 3
MaxRuns == 2
MaxEntries == 3

\* ------------------------------------------------------- python values
\* A Python value held in a list cell: a str, or a list of such values.
Str(s) == [tag |-> "str", str |-> s, items |-> <<>>]
List(xs) == [tag |-> "list", str |-> "", items |-> xs]

\* A variable not assigned yet, a file that does not exist, a database with no table.
Unassigned == [assigned |-> FALSE, value |-> <<>>]
Assigned(v) == [assigned |-> TRUE, value |-> v]
NoFile == [exists |-> FALSE, text |-> <<>>]
File(text) == [exists |-> TRUE, text |-> text]
NoTable == [exists |-> FALSE, name |-> "", columns |-> <<>>, records |-> <<>>]
Table(name, columns, records) ==
    [exists |-> TRUE, name |-> name, columns |-> columns, records |-> records]

\* The variables of the scripts that do not run.
CsvIdle ==
    /\ file_path = "" /\ infile = NoFile /\ stream = <<>> /\ pos = 0 /\ consumed = <<>>
    /\ outfile = NoFile /\ stdout = <<>>
    /\ events = <<>> /\ firstRow = TRUE /\ table = NoTable /\ run = 1 /\ prevOut = NoFile

DynamoIdle ==
    /\ IN_ = <<>> /\ cols = <<>> /\ i = 0 /\ OUT = Unassigned

NoFrame == [columns |-> <<>>, rows |-> <<>>]
TimesheetIdle == df = NoFrame

\* len(v) of a list value
PyLen(v) == Len(v.items)

\* v[k] of a list value, k zero-based and in range
PyIndex(v, k) == v.items[k + 1]

\* ------------------------------------------------- DynamoScript: rules
\* One entry per column list, in the order of the header appends, of the
\* appends of the populate loop and of the arguments of zip.
\*   kind "copy":   X.append(inX[i])        src = index into IN
\*   kind "whole":  X.append(inX)           src = index into IN
\*   kind "const":  X.append(lit)
\*   kind "cableType" / "installationMethod": the if/elif chains on IN[src][i]
Rule(name, header, kind, src, lit) ==
    [name |-> name, header |-> header, kind |-> kind, src |-> src, lit |-> lit]

Rules == <<
    Rule("cableReference", "Cable Reference", "copy", 1, ""),
    Rule("swbFrom", "SWB From", "copy", 2, ""),
    Rule("swbTo", "SWB To", "copy", 3, ""),
    Rule("swbType", "SWB Type", "const", 0, ""),
    Rule("swbLoad", "SWB Load", "copy", 4, ""),
    Rule("swbLoadScope", "SWB Load Scope", "const", 0, "Local"),
    Rule("swbPF", "SWB PF", "whole", 5, ""),
    Rule("cableLength", "Cable Length", "copy", 6, ""),
    Rule("cableSizeActiveconductors", "Cable Size - Active conductors", "copy", 7, ""),
    Rule("cableSizeNeutralconductors", "Cable Size - Neutral conductors", "copy", 8, ""),
    Rule("cableSizeEarthingconductor", "Cable Size - Earthing conductor", "const", 0, ""),
    Rule("activeConductormaterial", "Active Conductor material", "copy", 9, ""),
    Rule("ofPhases", "# of Phases", "const", 0, "RWB"),
    Rule("cableType", "Cable Type", "cableType", 10, ""),
    Rule("cableInsulation", "Cable Insulation", "copy", 11, ""),
    Rule("installationMethod", "Installation Method", "installationMethod", 12, ""),
    Rule("cableAdditionalDerating", "Cable Additional De-rating", "const", 0, ""),
    Rule("switchgearTripUnitType", "Switchgear Trip Unit Type", "const", 0, "Electronic"),
    Rule("switchgearManufacturer", "Switchgear Manufacturer", "whole", 13, ""),
    Rule("busType", "Bus Type", "const", 0, "Bus Bar"),
    Rule("busChassisRating", "Bus/Chassis Rating (A)", "const", 0, ""),
    Rule("upstreamDiversity", "Upstream Diversity", "const", 0, "STD"),
    Rule("isolatorType", "Isolator Type", "const", 0, "None"),
    Rule("isolatorRating", "Isolator Rating (A)", "const", 0, ""),
    Rule("protectiveDeviceRating", "Protective Device Rating (A)", "copy", 14, ""),
    Rule("protectiveDeviceManufacturer", "Protective Device Manufacturer", "whole", 15, ""),
    Rule("protectiveDeviceType", "Protective Device Type", "const", 0, ""),
    Rule("protectiveDeviceModel", "Protective Device Model", "const", 0, ""),
    Rule("protectiveDeviceOCRTripUnit", "Protective Device OCR/Trip Unit", "const", 0, ""),
    Rule("protectiveDeviceTripSetting", "Protective Device Trip Setting (A)", "const", 0, "")
>>

Columns == 1..Len(Rules)

\* The column holding the list named `name`.
Col(name) == CHOOSE c \in Columns : Rules[c].name = name

\* The kinds whose append evaluates IN[src][i] and so can raise IndexError.
IndexedKinds == {"copy", "cableType", "installationMethod"}

indexList == IN_[0]

\* A cable type chain that compares without regard to case: what C3 rules out.
CableTypeLookupAnyCase(v) ==
    IF v \in {Str("4C+E"), Str("4c+e")} THEN Str("Multi")
    ELSE IF v = Str("4x1C+E") THEN Str("SDI")
    ELSE IF v = Str("BUS DUCT") THEN Str("BD")
    ELSE v

\* The cable type if/elif chain: the value appended for inCableType[i] = v.
CableTypeLookup(v) ==
    IF v = Str("4C+E") THEN Str("Multi")
    ELSE IF v = Str("4x1C+E") THEN Str("SDI")
    ELSE IF v = Str("BUS DUCT") THEN Str("BD")
    ELSE v

\* The installation method if/elif chain.
InstallationMethodLookup(v) ==
    IF v = Str("LADDER, SPACED") THEN Str("L")
    ELSE IF v = Str("PERFORATED TRAY, TOUCHING") THEN Str("PT")
    ELSE IF v = Str("IN UNDERGROUND WIRING ENCLOSURE") THEN Str("C")
    ELSE v

\* The value the populate loop appends to column c in iteration k (its index
\* expression, if any, being in range).
Appended(c, k) ==
    LET r == Rules[c] IN
    CASE r.kind = "copy" -> PyIndex(IN_[r.src], k)
      [] r.kind = "whole" -> IN_[r.src]
      [] r.kind = "const" -> Str(r.lit)
      [] r.kind = "cableType" -> CableTypeLookup(PyIndex(IN_[r.src], k))
      [] r.kind = "installationMethod" ->
            InstallationMethodLookup(PyIndex(IN_[r.src], k))

\* The columns whose append raises IndexError in iteration k.
Raising(k) ==
    {c \in Columns : Rules[c].kind \in IndexedKinds /\ k >= PyLen(IN_[Rules[c].src])}

Min(S) == CHOOSE x \in S : \A y \in S : x <= y

\* zip(*lists): as many tuples as the shortest list has elements.
Zip(lists) ==
    LET n == Min({Len(lists[c]) : c \in DOMAIN lists}) IN
    [r \in 1..n |-> [c \in DOMAIN lists |-> lists[c][r]]]

\* ----------------------------------------------- DynamoScript: actions
\* "#Add header row": one append per column list.
AddHeader ==
    /\ script = "DynamoScript" /\ pc = "header"
    /\ cols' = [c \in Columns |-> Append(cols[c], Str(Rules[c].header))]
    /\ pc' = "populate"
    /\ UNCHANGED <<script, IN_, i, OUT, csvVars, df>>

\* One iteration of "for i, indexValue in enumerate(indexList)". The appends
\* run in column order; the first index expression out of range raises
\* IndexError, which ends the script with the earlier appends done.
Populate ==
    /\ script = "DynamoScript" /\ pc = "populate"
    /\ i < PyLen(indexList)
    /\ IF Raising(i) = {}
       THEN /\ cols' = [c \in Columns |-> Append(cols[c], Appended(c, i))]
            /\ i' = i + 1
            /\ pc' = pc
       ELSE /\ cols' = [c \in Columns |->
                          IF c < Min(Raising(i))
                          THEN Append(cols[c], Appended(c, i)) ELSE cols[c]]
            /\ i' = i
            /\ pc' = "error"
    /\ UNCHANGED <<script, IN_, OUT, csvVars, df>>

\* The loop is exhausted: OUT = zip(cableReference, ..., protectiveDeviceTripSetting).
Combine ==
    /\ script = "DynamoScript" /\ pc = "populate"
    /\ i = PyLen(indexList)
    /\ OUT' = Assigned(Zip(cols))
    /\ pc' = "done"
    /\ UNCHANGED <<script, IN_, cols, i, csvVars, df>>

\* ------------------------------------------------ DynamoScript: inputs
CableTypeInputs ==
    {Str("4C+E"), Str("4x1C+E"), Str("BUS DUCT"), Str("4c+e")}

InstallationMethodInputs ==
    {Str("LADDER, SPACED"), Str("PERFORATED TRAY, TOUCHING"),
     Str("IN UNDERGROUND WIRING ENCLOSURE"), Str(" LADDER, SPACED")}

\* The element at zero-based position k of the input list IN[src].
Elem(src, k) == Str("in" \o ToString(src) \o "_" \o ToString(k))

\* A list of n distinct elements for IN[src].
ListOf(src, n) == List([k \in 1..n |-> Elem(src, k - 1)])

\* IN[5], IN[13], IN[15] are appended whole: a single value or a list.
WholeInputs == {5, 13, 15}

\* Inputs whose lists all have the length of indexList, with a single value
\* for each input that is appended whole.
AlignedInputs ==
    { [src \in 0..15 |->
         IF src = 10 THEN List(ct)
         ELSE IF src = 12 THEN List(im)
         ELSE IF src \in WholeInputs THEN Elem(src, 0)
         ELSE ListOf(src, n)] :
      <<n, ct, im>> \in
         UNION { {n} \X [1..n -> CableTypeInputs] \X [1..n -> InstallationMethodInputs] :
                 n \in 0..MaxRows } }

\* Inputs that are all lists, one of them d longer than indexList.
ListInputs ==
    { [src \in 0..15 |->
         LET len == IF src = odd THEN n + d ELSE n IN
         IF src = 10 THEN List([k \in 1..len |-> Str("4C+E")])
         ELSE IF src = 12 THEN List([k \in 1..len |-> Str("LADDER, SPACED")])
         ELSE ListOf(src, len)] :
      <<n, odd, d>> \in
         {t \in (0..MaxRows) \X (1..15) \X {-1, 0, 1} : t[1] + t[3] >= 0} }

InitDynamoScript ==
    /\ script = "DynamoScript"
    /\ pc = "header"
    /\ IN_ \in AlignedInputs \cup ListInputs
    /\ cols = [c \in Columns |-> <<>>]
    /\ i = 0
    /\ OUT = Unassigned
    /\ CsvIdle
    /\ TimesheetIdle


\* ------------------------------------------------------------- text
\* Text is a sequence of characters, each a one-character string; BOM stands
\* for the character U+FEFF.
BOM == "U+FEFF"
Quote == "\""
Comma == ","
NL == "\n"
CR == "\r"
Apostrophe == "'"

RECURSIVE Concat(_)
\* The concatenation of a sequence of texts.
Concat(texts) ==
    IF texts = <<>> THEN <<>> ELSE Head(texts) \o Concat(Tail(texts))

\* The text read from a file opened in text mode with newline=None:
\* "\r\n" and a lone "\r" both arrive as "\n".
UniversalNewlines(text) ==
    LET kept == SelectSeq([k \in 1..Len(text) |-> k],
                          LAMBDA k : ~(text[k] = CR /\ k < Len(text) /\ text[k + 1] = NL))
    IN  [j \in 1..Len(kept) |-> IF text[kept[j]] = CR THEN NL ELSE text[kept[j]]]

\* ------------------------------------------------------- csv.reader
\* The csv reader of the excel dialect (delimiter ',', quotechar '"',
\* doublequote, not strict) on one field of `text`, from character p + 1 on:
\* the field, the number of characters consumed with its delimiter, and
\* whether it is the last field of its record. A newline inside quotes is part
\* of the field; the end of the input ends the record.
RECURSIVE ScanField(_, _, _, _)
ScanField(text, p, state, field) ==
    IF p >= Len(text) THEN [value |-> field, next |-> p, last |-> TRUE]
    ELSE
    LET c == text[p + 1] IN
    CASE state = "START_FIELD" ->
            IF c = NL THEN [value |-> <<>>, next |-> p + 1, last |-> TRUE]
            ELSE IF c = Quote THEN ScanField(text, p + 1, "IN_QUOTED_FIELD", <<>>)
            ELSE IF c = Comma THEN [value |-> <<>>, next |-> p + 1, last |-> FALSE]
            ELSE ScanField(text, p + 1, "IN_FIELD", <<c>>)
      [] state = "IN_FIELD" ->
            IF c = NL THEN [value |-> field, next |-> p + 1, last |-> TRUE]
            ELSE IF c = Comma THEN [value |-> field, next |-> p + 1, last |-> FALSE]
            ELSE ScanField(text, p + 1, "IN_FIELD", Append(field, c))
      [] state = "IN_QUOTED_FIELD" ->
            IF c = Quote THEN ScanField(text, p + 1, "QUOTE_IN_QUOTED_FIELD", field)
            ELSE ScanField(text, p + 1, "IN_QUOTED_FIELD", Append(field, c))
      [] state = "QUOTE_IN_QUOTED_FIELD" ->
            IF c = Quote THEN ScanField(text, p + 1, "IN_QUOTED_FIELD", Append(field, c))
            ELSE IF c = Comma THEN [value |-> field, next |-> p + 1, last |-> FALSE]
            ELSE IF c = NL THEN [value |-> field, next |-> p + 1, last |-> TRUE]
            ELSE ScanField(text, p + 1, "IN_FIELD", Append(field, c))

\* The fields of one record, from character p + 1 of `text` on.
RECURSIVE ScanRecord(_, _, _)
ScanRecord(text, p, fields) ==
    LET f == ScanField(text, p, "START_FIELD", <<>>) IN
    IF f.last THEN [stop |-> FALSE, row |-> Append(fields, f.value), next |-> f.next]
    ELSE ScanRecord(text, f.next, Append(fields, f.value))

\* next(reader): [stop |-> TRUE] at the end of the input, and else the row
\* read, with the number of characters consumed. An empty line gives the row [].
ReaderNext(text, p) ==
    IF p >= Len(text) THEN [stop |-> TRUE, row |-> <<>>, next |-> p]
    ELSE IF text[p + 1] = NL THEN [stop |-> FALSE, row |-> <<>>, next |-> p + 1]
    ELSE ScanRecord(text, p, <<>>)

\* list(reader): every row of `text` from character p + 1 on.
RECURSIVE ReadAll(_, _)
ReadAll(text, p) ==
    LET r == ReaderNext(text, p) IN
    IF r.stop THEN <<>> ELSE <<r.row>> \o ReadAll(text, r.next)

\* ------------------------------------------------------- csv.writer
\* QUOTE_MINIMAL: a field is quoted when it holds the delimiter, the
\* quotechar or a character of the line terminator.
NeedsQuote(field) ==
    \E k \in 1..Len(field) : field[k] \in {Comma, Quote, CR, NL}

\* doublequote: each quotechar inside a quoted field is written twice.
RECURSIVE DoubleQuotes(_)
DoubleQuotes(field) ==
    IF field = <<>> THEN <<>>
    ELSE (IF Head(field) = Quote THEN <<Quote, Quote>> ELSE <<Head(field)>>)
         \o DoubleQuotes(Tail(field))

WriteField(field) ==
    IF NeedsQuote(field) THEN <<Quote>> \o DoubleQuotes(field) \o <<Quote>> ELSE field

RECURSIVE JoinFields(_)
JoinFields(row) ==
    IF row = <<>> THEN <<>>
    ELSE IF Len(row) = 1 THEN WriteField(row[1])
    ELSE WriteField(row[1]) \o <<Comma>> \o JoinFields(Tail(row))

\* writer.writerow(row): the text appended to the file (opened with
\* newline='', so the "\r\n" terminator is written as it is). A row of one
\* empty field is written as "".
WriteRow(row) ==
    (IF row = <<<<>>>> THEN <<Quote, Quote>> ELSE JoinFields(row)) \o <<CR, NL>>

\* ----------------------------------------------------- blank-row filter
\* Evaluating not(row[7]=="" and row[8]==""): "raise" when an index that is
\* evaluated is out of range (row[8] is evaluated only when row[7] == "").
BlankRowFilter(row) ==
    IF Len(row) < 8 THEN "raise"
    ELSE IF row[8] # <<>> THEN "keep"
    ELSE IF Len(row) < 9 THEN "raise"
    ELSE IF row[9] # <<>> THEN "keep"
    ELSE "drop"

\* ----------------------------------------------------------- Hello.py
\* The columns of CREATE TABLE studentResults (...).
studentResults ==
    Table("studentResults",
          <<"StudentID", "Form", "House", "SubjectName", "Teacher", "Result",
            "ResultType", "TermNumber", "SubjectCode">>,
          <<>>)

\* The path of the file Hello.py writes, and a path of another file.
OutputPath == "my_file_utf8.csv"
OtherPath == "other.csv"

\* with open(file_path, 'r', ...) as infile / open('my_file_utf8.csv', 'w', ...):
\* a missing input file raises; the output file is created empty, or emptied
\* when it exists. When file_path names the output file, the file that infile
\* has open is emptied before the reader has read any of it.
HelloOpen ==
    /\ script = "Hello" /\ pc = "open"
    /\ IF ~infile.exists
       THEN pc' = "error" /\ UNCHANGED <<infile, outfile, stream>>
       ELSE /\ pc' = "copy"
            /\ outfile' = File(<<>>)
            /\ infile' = IF file_path = OutputPath THEN File(<<>>) ELSE infile
            /\ stream' = UniversalNewlines(infile'.text)
    /\ UNCHANGED <<script, dynamoVars, file_path, pos, consumed, stdout, events, firstRow,
                   table, run, prevOut, df>>

\* One iteration of "for row in reader": print(row[0]), then the filter, then
\* writer.writerow(row) for a row that is kept.
HelloCopyRow ==
    /\ script = "Hello" /\ pc = "copy"
    /\ LET r == ReaderNext(stream, pos)
           n == Len(consumed) + 1
       IN  /\ ~r.stop
           /\ pos' = r.next
           /\ consumed' = Append(consumed, r.row)
           /\ IF r.row = <<>>
              THEN /\ pc' = "error"
                   /\ UNCHANGED <<stdout, events, outfile>>
              ELSE /\ stdout' = Append(stdout, r.row[1])
                   /\ LET d == BlankRowFilter(r.row) IN
                      /\ pc' = IF d = "raise" THEN "error" ELSE pc
                      /\ outfile' = IF d = "keep"
                                    THEN File(outfile.text \o WriteRow(r.row))
                                    ELSE outfile
                      /\ events' = events \o <<<<"print", n>>, <<"filter", n>>>>
                                   \o (IF d = "keep" THEN <<<<"write", n>>>> ELSE <<>>)
    /\ UNCHANGED <<script, dynamoVars, file_path, infile, stream, firstRow, table, run, prevOut, df>>

\* The reader is exhausted: both files are closed.
HelloCopyEnd ==
    /\ script = "Hello" /\ pc = "copy"
    /\ ReaderNext(stream, pos).stop
    /\ pc' = "createdb"
    /\ UNCHANGED <<script, dynamoVars, csvVars, df>>

\* conn = sqlite3.connect(":memory:"); CREATE TABLE studentResults (...)
HelloCreateDb ==
    /\ script = "Hello" /\ pc = "createdb"
    /\ table' = studentResults
    /\ pc' = "done"
    /\ UNCHANGED <<script, dynamoVars, file_path, infile, stream, pos, consumed, outfile, stdout,
                   events, firstRow, run, prevOut, df>>

\* The script is run again and the file it wrote, or a copy of that file
\* under another path, is selected in the file dialog: a new process, with
\* nothing kept but the files.
HelloRunAgain ==
    /\ script = "Hello" /\ pc = "done"
    /\ run < MaxRuns
    /\ run' = run + 1
    /\ file_path' \in {OutputPath, OtherPath}
    /\ infile' = outfile
    /\ prevOut' = outfile
    /\ UNCHANGED outfile
    /\ stream' = <<>> /\ pos' = 0 /\ consumed' = <<>> /\ stdout' = <<>> /\ events' = <<>>
    /\ table' = NoTable
    /\ pc' = "open"
    /\ UNCHANGED <<script, dynamoVars, firstRow, df>>

\* ---------------------------------------------------- PowerCAD_EFLI.py
\* A stripping step that leaves the text as it is: what C8 rules out.
StripNothing(element) == element

\* element.replace('\ufeff', ''): every U+FEFF of the text removed.
StripBOM(element) == SelectSeq(element, LAMBDA c : c # BOM)

RECURSIVE SqlList(_)
\* The loop "for element in row: ... += "'"+newelement+"', "": the quoted
\* elements, each followed by ", ".
SqlList(row) ==
    IF row = <<>> THEN <<>>
    ELSE <<Apostrophe>> \o StripBOM(Head(row)) \o <<Apostrophe, Comma, " ">>
         \o SqlList(Tail(row))

\* text[:-2]
DropLastTwo(text) == SubSeq(text, 1, Len(text) - 2)

\* The text between the parentheses of the CREATE TABLE and INSERT statements.
SqlArguments(row) == DropLastTwo(SqlList(row))

\* sqlite's reading of a string literal whose opening apostrophe is character
\* p of `text`: two apostrophes inside it stand for one, a single one ends it.
RECURSIVE ScanLiteral(_, _, _)
ScanLiteral(text, p, value) ==
    IF p >= Len(text) THEN [ok |-> FALSE, value |-> value, next |-> p]
    ELSE IF text[p + 1] # Apostrophe THEN ScanLiteral(text, p + 1, Append(value, text[p + 1]))
    ELSE IF p + 2 <= Len(text) /\ text[p + 2] = Apostrophe
         THEN ScanLiteral(text, p + 2, Append(value, Apostrophe))
    ELSE [ok |-> TRUE, value |-> value, next |-> p + 1]

\* sqlite's reading of a list of string literals separated by ", ", from
\* character p + 1 of `text` on. Anything else is rejected: the statements of
\* the inputs modelled hold nothing else outside their literals.
RECURSIVE ParseLiterals(_, _, _)
ParseLiterals(text, p, values) ==
    IF p >= Len(text) \/ text[p + 1] # Apostrophe THEN [ok |-> FALSE, values |-> values]
    ELSE LET lit == ScanLiteral(text, p + 1, <<>>) IN
         IF ~lit.ok THEN [ok |-> FALSE, values |-> values]
         ELSE IF lit.next = Len(text) THEN [ok |-> TRUE, values |-> Append(values, lit.value)]
         ELSE IF lit.next + 2 <= Len(text) /\ text[lit.next + 1] = Comma
                 /\ text[lit.next + 2] = " "
              THEN ParseLiterals(text, lit.next + 2, Append(values, lit.value))
         ELSE [ok |-> FALSE, values |-> values]

HasDuplicates(seq) == \E j, k \in 1..Len(seq) : j < k /\ seq[j] = seq[k]

\* conn.execute("CREATE TABLE cableSchedule (" + arguments + ")"): the table
\* created, or NoTable when sqlite raises (a syntax error, a column name
\* given twice).
CreateTable(arguments) ==
    LET parsed == ParseLiterals(arguments, 0, <<>>) IN
    IF parsed.ok /\ ~HasDuplicates(parsed.values)
    THEN Table("cableSchedule", parsed.values, <<>>)
    ELSE NoTable

\* conn.execute("INSERT INTO cableSchedule VALUES (" + arguments + ")") on
\* table t: the table with the record added, or NoTable when sqlite raises (a
\* syntax error, a number of values that is not the number of columns).
InsertInto(t, arguments) ==
    LET parsed == ParseLiterals(arguments, 0, <<>>) IN
    IF t.exists /\ parsed.ok /\ Len(parsed.values) = Len(t.columns)
    THEN Table(t.name, t.columns, Append(t.records, parsed.values))
    ELSE NoTable

\* conn = sqlite3.connect(":memory:"), the read of the whole file and
\* "with open(file_path, ...)": a missing TrainDataUTF.CSV raises.
PowerCADOpen ==
    /\ script = "PowerCAD_EFLI" /\ pc = "open"
    /\ pc' = IF infile.exists THEN "load" ELSE "error"
    /\ stream' = IF infile.exists THEN UniversalNewlines(infile.text) ELSE stream
    /\ firstRow' = TRUE
    /\ UNCHANGED <<script, dynamoVars, file_path, infile, pos, consumed, outfile, stdout, events,
                   table, run, prevOut, df>>

\* One iteration of "for row in reader": the first row creates the table,
\* each later row is filtered and, when kept, inserted.
PowerCADLoadRow ==
    /\ script = "PowerCAD_EFLI" /\ pc = "load"
    /\ LET r == ReaderNext(stream, pos)
           n == Len(consumed) + 1
       IN  /\ ~r.stop
           /\ pos' = r.next
           /\ consumed' = Append(consumed, r.row)
           /\ IF firstRow
              THEN LET t == CreateTable(SqlArguments(r.row)) IN
                   /\ events' = events \o <<<<"strip", n>>, <<"create", n>>>>
                   /\ table' = t
                   /\ firstRow' = ~t.exists
                   /\ pc' = IF t.exists THEN pc ELSE "error"
              ELSE LET d == BlankRowFilter(r.row)
                       t == InsertInto(table, SqlArguments(r.row))
                   IN  /\ firstRow' = firstRow
                       /\ IF d = "keep"
                          THEN /\ events' = events \o
                                    <<<<"filter", n>>, <<"strip", n>>, <<"insert", n>>>>
                               /\ table' = IF t.exists THEN t ELSE table
                               /\ pc' = IF t.exists THEN pc ELSE "error"
                          ELSE /\ events' = Append(events, <<"filter", n>>)
                               /\ table' = table
                               /\ pc' = IF d = "raise" THEN "error" ELSE pc
    /\ UNCHANGED <<script, dynamoVars, file_path, infile, stream, outfile, stdout, run, prevOut, df>>

\* The reader is exhausted: the file is closed.
PowerCADLoadEnd ==
    /\ script = "PowerCAD_EFLI" /\ pc = "load"
    /\ ReaderNext(stream, pos).stop
    /\ pc' = "query"
    /\ UNCHANGED <<script, dynamoVars, csvVars, df>>

\* The characters of the inputs modelled, in code point order.
CodeOrder ==
    <<" ", Quote, Apostrophe, Comma, "-", "0", "1", "2", "3", "4", "5", "6", "7", "8", "9",
      "C", "R", "a", "b", "c", "d", "e", "f", "g", "h", "i", "l", "n", "o", "r", "s", "t",
      "u", "x", "y", "z", "|", BOM>>

Code(c) == CHOOSE k \in 1..Len(CodeOrder) : CodeOrder[k] = c

\* a < b for two texts (sqlite's BINARY collation, Python's str comparison).
RECURSIVE TextLess(_, _)
TextLess(a, b) ==
    IF b = <<>> THEN FALSE
    ELSE IF a = <<>> THEN TRUE
    ELSE IF Head(a) = Head(b) THEN TextLess(Tail(a), Tail(b))
    ELSE Code(Head(a)) < Code(Head(b))

Digits == <<"0", "1", "2", "3", "4", "5", "6", "7", "8", "9">>

\* Whether int(text) returns for a text of the inputs modelled (which hold
\* no sign, blank or underscore next to a digit).
IsInt(text) ==
    /\ text # <<>>
    /\ \A k \in 1..Len(text) : \E d \in 1..Len(Digits) : Digits[d] = text[k]

RECURSIVE IntOf(_)
IntOf(text) ==
    IF text = <<>> THEN 0
    ELSE 10 * IntOf(SubSeq(text, 1, Len(text) - 1))
         + (CHOOSE d \in 0..9 : Digits[d + 1] = text[Len(text)])

RECURSIVE StrOf(_)
\* str(n) of a natural number
StrOf(n) == IF n < 10 THEN <<Digits[n + 1]>> ELSE StrOf(n \div 10) \o <<Digits[(n % 10) + 1]>>

\* The column names of the SELECT statement.
CableCode == <<"C", "a", "b", "l", "e", " ", "C", "o", "d", "e">>
CableConfiguration ==
    <<"C", "a", "b", "l", "e", " ", "C", "o", "n", "f", "i", "g", "u", "r", "a", "t",
      "i", "o", "n">>
CableReference ==
    <<"C", "a", "b", "l", "e", " ", "R", "e", "f", "e", "r", "e", "n", "c", "e">>

\* The position of column `name` in table t, 0 when it has no such column.
ColumnIndex(t, name) ==
    IF \E k \in 1..Len(t.columns) : t.columns[k] = name
    THEN CHOOSE k \in 1..Len(t.columns) : t.columns[k] = name
    ELSE 0

\* The orders in which SELECT ... WHERE NOT(`Cable Reference` = '') ORDER BY
\* `Cable Reference` ASC may return the records of t: every arrangement of the
\* selected records in which the references do not decrease.
QueryOrders(t) ==
    LET ref == ColumnIndex(t, CableReference)
        sel == {k \in 1..Len(t.records) : t.records[k][ref] # <<>>}
    IN  {o \in [1..Cardinality(sel) -> sel] :
            /\ \A j, k \in DOMAIN o : j # k => o[j] # o[k]
            /\ \A j, k \in DOMAIN o :
                  j < k => ~TextLess(t.records[o[k]][ref], t.records[o[j]][ref])}

\* The line printed for a record of the query.
QueryLine(t, rec) ==
    LET number1 == IntOf(rec[ColumnIndex(t, CableCode)])
        number2 == IntOf(rec[ColumnIndex(t, CableConfiguration)])
    IN  StrOf(number1) \o <<" ", "|", " ">> \o StrOf(number2) \o <<" ", "|", " ">>
        \o StrOf(number1 * number2)

QueryReadable(t, rec) ==
    /\ IsInt(rec[ColumnIndex(t, CableCode)])
    /\ IsInt(rec[ColumnIndex(t, CableConfiguration)])

\* The loop over conn.execute("SELECT ..."): sqlite raises when there is no
\* table or a named column is missing; int() raises on the first record whose
\* values are not numbers, after the lines of the records before it.
PowerCADQuery ==
    /\ script = "PowerCAD_EFLI" /\ pc = "query"
    /\ IF \/ ~table.exists
          \/ \E name \in {CableCode, CableConfiguration, CableReference} :
                ColumnIndex(table, name) = 0
       THEN pc' = "error" /\ stdout' = stdout
       ELSE \E o \in QueryOrders(table) :
              LET bad == {k \in DOMAIN o : ~QueryReadable(table, table.records[o[k]])}
                  last == IF bad = {} THEN Len(o) ELSE Min(bad) - 1
              IN  /\ stdout' = stdout \o [k \in 1..last |->
                                            QueryLine(table, table.records[o[k]])]
                  /\ pc' = IF bad = {} THEN "done" ELSE "error"
    /\ UNCHANGED <<script, dynamoVars, file_path, infile, stream, pos, consumed, outfile, events,
                   firstRow, table, run, prevOut, df>>

\* ------------------------------------------------------ csv inputs
Blank == <<>>

\* A line of the file: the raw fields joined by commas, and the newline.
Line(rawFields) ==
    Concat([k \in 1..Len(rawFields) |->
              IF k = 1 THEN rawFields[k] ELSE <<Comma>> \o rawFields[k]]) \o <<NL>>

Lines == {
    \* a header row, with the byte order mark of the file on its first field
    Line(<<<<BOM>> \o CableCode, CableConfiguration, CableReference,
           <<"d">>, <<"e">>, <<"f">>, <<"g">>, <<"h">>, <<"i">>>>),
    \* fields 7 and 8 both non-empty
    Line(<<<<"2">>, <<"3">>, <<"x">>, Blank, Blank, Blank, Blank, <<"x">>, <<"x">>>>),
    \* field 7 non-empty, field 8 empty; a field holding two apostrophes
    Line(<<<<"3">>, <<"2">>, <<Apostrophe, Apostrophe>>, Blank, Blank, Blank, Blank,
           <<"x">>, Blank>>),
    \* field 7 empty, field 8 non-empty (with U+FEFF); a quoted first field
    \* holding a comma and a quote
    Line(<<<<Quote, "2", Comma, Quote, Quote, "2", Quote>>, <<"3">>, <<"z">>, Blank, Blank,
           Blank, Blank, Blank, <<BOM, "x">>>>),
    \* fields 7 and 8 both empty, written as quoted empty strings
    Line(<<<<"2">>, <<"3">>, <<"x">>, Blank, Blank, Blank, Blank, <<Quote, Quote>>,
           <<Quote, Quote>>>>),
    \* eight fields, field 7 non-empty
    Line(<<<<"2">>, <<"3">>, <<"x">>, Blank, Blank, Blank, Blank, <<"x">>>>),
    \* a blank line
    <<NL>>
}

RECURSIVE FilesOf(_)
\* The files of at most n lines.
FilesOf(n) ==
    IF n = 0 THEN {<<>>}
    ELSE LET shorter == FilesOf(n - 1) IN
         shorter \cup {f \o l : f \in shorter, l \in Lines}

InitHello ==
    /\ script = "Hello"
    /\ pc = "open"
    /\ DynamoIdle
    /\ file_path \in {OutputPath, OtherPath}
    /\ infile \in {File(text) : text \in FilesOf(MaxLines)} \cup {NoFile}
    /\ outfile = IF file_path = OutputPath THEN infile ELSE NoFile
    /\ stream = <<>> /\ pos = 0 /\ consumed = <<>> /\ stdout = <<>>
    /\ events = <<>> /\ firstRow = TRUE /\ table = NoTable /\ run = 1 /\ prevOut = NoFile
    /\ TimesheetIdle

InitPowerCAD ==
    /\ script = "PowerCAD_EFLI"
    /\ pc = "open"
    /\ DynamoIdle
    /\ file_path = "TrainDataUTF.CSV"
    /\ infile \in {File(text) : text \in FilesOf(MaxLines)} \cup {NoFile}
    /\ stream = <<>> /\ pos = 0 /\ consumed = <<>> /\ outfile = NoFile /\ stdout = <<>>
    /\ events = <<>> /\ firstRow = TRUE /\ table = NoTable /\ run = 1 /\ prevOut = NoFile
    /\ TimesheetIdle

\* ------------------------------------------------ Timesheet_Functions.py
\* A dataframe: its column labels, and its rows in order, each with its
\* index label (the position it had in the csv file) and its cells.
Frame(columns, rows) == [columns |-> columns, rows |-> rows]

Labels(frame) == {frame.columns[k] : k \in 1..Len(frame.columns)}

\* df.drop(labels, axis=1): the columns left, in order.
DropLabels(frame, labels) ==
    Frame(SelectSeq(frame.columns, LAMBDA c : c \notin labels), frame.rows)

Financial ==
    {"ID", "Invoice", "Hourly Rate", "Duration (mins)", "Billable Amount",
     "Billable Currency"}

Reordered ==
    <<"Contact", "Project Name", "Tasks", "Date", "Day of Week", "Duration (hours)",
      "Description">>

\* Whether pd.to_datetime reads the text: the texts modelled are dates
\* written YYYY-MM-DD and texts that are no date at all.
IsDate(text) ==
    /\ Len(text) = 10
    /\ text[5] = "-" /\ text[8] = "-"
    /\ \A k \in {1, 2, 3, 4, 6, 7, 9, 10} : IsInt(<<text[k]>>)

\* Days since 1970-01-01 of the date y-m-d of the Gregorian calendar.
DaysFromCivil(y, m, d) ==
    LET yy == IF m <= 2 THEN y - 1 ELSE y
        era == yy \div 400
        yoe == yy - era * 400
        mp == (m + 9) % 12
        doy == (153 * mp + 2) \div 5 + d - 1
        doe == yoe * 365 + yoe \div 4 - yoe \div 100 + doy
    IN  era * 146097 + doe - 719468

DayNames == <<"Sunday", "Monday", "Tuesday", "Wednesday", "Thursday", "Friday", "Saturday">>

\* pd.to_datetime(text).day_name()
DayName(text) ==
    LET days == DaysFromCivil(IntOf(SubSeq(text, 1, 4)), IntOf(SubSeq(text, 6, 7)),
                              IntOf(SubSeq(text, 9, 10)))
    IN  DayNames[((days + 4) % 7) + 1]

\* A sort whose result is discarded, the rows staying as the file had them:
\* what the amended C2 rules out.
FileOrders(rows) == {[k \in 1..Len(rows) |-> k]}

\* The orders df.sort_values(by='Date') may give the rows: the sort is not a
\* stable one, so every arrangement in which the Date texts do not decrease.
SortedOrders(rows) ==
    {o \in [1..Len(rows) -> 1..Len(rows)] :
        /\ \A j, k \in 1..Len(rows) : j # k => o[j] # o[k]
        /\ \A j, k \in 1..Len(rows) :
              j < k => ~TextLess(rows[o[k]].cells["Date"], rows[o[j]].cells["Date"])}

\* df = df.drop([...], axis=1): KeyError when a label is not a column.
CleanDrop ==
    /\ script = "Timesheet_Functions" /\ pc = "drop"
    /\ IF Financial \subseteq Labels(df)
       THEN df' = DropLabels(df, Financial) /\ pc' = "day_of_week"
       ELSE df' = df /\ pc' = "error"
    /\ UNCHANGED <<script, dynamoVars, csvVars>>

\* df['Day of Week'] = pd.to_datetime(df['Date']).dt.day_name(): KeyError
\* without a Date column, and to_datetime raises on a text that is no date.
CleanDayOfWeek ==
    /\ script = "Timesheet_Functions" /\ pc = "day_of_week"
    /\ IF /\ "Date" \in Labels(df)
          /\ \A k \in 1..Len(df.rows) : IsDate(df.rows[k].cells["Date"])
       THEN /\ df' = Frame(Append(df.columns, "Day of Week"),
                           [k \in 1..Len(df.rows) |->
                              [index |-> df.rows[k].index,
                               cells |-> [c \in Labels(df) \cup {"Day of Week"} |->
                                            IF c = "Day of Week"
                                            THEN DayName(df.rows[k].cells["Date"])
                                            ELSE df.rows[k].cells[c]]]])
            /\ pc' = "reorder"
       ELSE df' = df /\ pc' = "error"
    /\ UNCHANGED <<script, dynamoVars, csvVars>>

\* df = df[[...]]: the columns listed, in that order; KeyError when one is
\* not a column.
CleanReorder ==
    /\ script = "Timesheet_Functions" /\ pc = "reorder"
    /\ IF \A k \in 1..Len(Reordered) : Reordered[k] \in Labels(df)
       THEN /\ df' = Frame(Reordered,
                           [k \in 1..Len(df.rows) |->
                              [index |-> df.rows[k].index,
                               cells |-> [c \in {Reordered[j] : j \in 1..Len(Reordered)} |->
                                            df.rows[k].cells[c]]]])
            /\ pc' = "sort"
       ELSE df' = df /\ pc' = "error"
    /\ UNCHANGED <<script, dynamoVars, csvVars>>

\* df = df.sort_values(by='Date'); return df
CleanSort ==
    /\ script = "Timesheet_Functions" /\ pc = "sort"
    /\ \E o \in SortedOrders(df.rows) :
          df' = Frame(df.columns, [k \in 1..Len(df.rows) |-> df.rows[o[k]]])
    /\ pc' = "done"
    /\ UNCHANGED <<script, dynamoVars, csvVars>>

\* ------------------------------------------------- timesheet inputs
TimesheetColumns ==
    <<"ID", "Invoice", "Hourly Rate", "Duration (mins)", "Billable Amount",
      "Billable Currency", "Contact", "Project Name", "Tasks", "Date", "Duration (hours)",
      "Description">>

DateInputs == {
    <<"2", "0", "2", "3", "-", "0", "3", "-", "0", "6">>,
    <<"2", "0", "2", "3", "-", "0", "3", "-", "0", "5">>,
    <<"2", "0", "2", "3", "-", "1", "1", "-", "0", "2">>,
    <<"s", "o", "o", "n">>
}

\* The column lists of the csv files modelled: the export as it is, one
\* with a further column, one without its Invoice column.
ColumnInputs == {
    TimesheetColumns,
    Append(TimesheetColumns, "Notes"),
    SelectSeq(TimesheetColumns, LAMBDA c : c # "Invoice")
}

\* pd.read_csv(file_path): rows 0..n-1, each cell a text.
FrameInputs ==
    { Frame(columns,
            [k \in 1..Len(dates) |->
               [index |-> k - 1,
                cells |-> [c \in {columns[j] : j \in 1..Len(columns)} |->
                             IF c = "Date" THEN dates[k] ELSE "v"]]]) :
      columns \in ColumnInputs,
      dates \in UNION {[1..n -> DateInputs] : n \in 0..MaxEntries} }

InitTimesheet ==
    /\ script = "Timesheet_Functions"
    /\ pc = "drop"
    /\ DynamoIdle
    /\ CsvIdle
    /\ df \in FrameInputs

\* ------------------------------------------------------------ properties
\* The blank-row predicate as the specification states it: a row passes when
\* field 7 or field 8 (zero-based) is a non-empty text.
Passes(row) ==
    \/ Len(row) >= 8 /\ row[8] # <<>>
    \/ Len(row) >= 9 /\ row[9] # <<>>

\* The rows a csv reader finds in the output file of Hello.py.
OutRows == ReadAll(UniversalNewlines(outfile.text), 0)

\* The rows after the first one that the reader has yielded.
DataRows == IF consumed = <<>> THEN <<>> ELSE Tail(consumed)

\* Each field of each row with its U+FEFF characters removed.
Stripped(rows) ==
    [k \in 1..Len(rows) |-> [j \in 1..Len(rows[k]) |->
        SelectSeq(rows[k][j], LAMBDA c : c # BOM)]]

\* The inputs of DynamoScript that the populate loop indexes with i.
IndexedSources == {Rules[c].src : c \in {d \in Columns : Rules[d].kind \in IndexedKinds}}

AllAligned == \A src \in IndexedSources : PyLen(IN_[src]) = PyLen(indexList)

CsvLoading == pc \in {"load", "query", "done"}

\* C1: the output is one header row plus one row per passing data row:
\* 1 + i entries in every column list while DynamoScript populates and
\* 1 + len(indexList) records in OUT; in Hello.py, while no row has made the
\* copy fail and once the first row is read, 1 + the passing rows among the
\* later rows; in PowerCAD_EFLI.py one record per passing data row.
C1_HeaderPlusPassing ==
    /\ script = "DynamoScript" /\ pc = "populate" =>
          \A c \in Columns : Len(cols[c]) = 1 + i
    /\ OUT.assigned => Len(OUT.value) = 1 + PyLen(indexList)
    /\ script = "Hello" /\ pc # "error" /\ consumed # <<>> =>
          Len(OutRows) = 1 + Len(SelectSeq(DataRows, Passes))
    /\ script = "PowerCAD_EFLI" /\ CsvLoading /\ table.exists =>
          Len(table.records) = Len(SelectSeq(DataRows, Passes))

C3_LookupTotal ==
    script = "DynamoScript" =>
    /\ \A r \in 1..(Len(cols[Col("cableType")]) - 1) :
          LET v == PyIndex(IN_[10], r - 1)
              out == cols[Col("cableType")][r + 1]
          IN  /\ v = Str("4C+E") => out = Str("Multi")
              /\ v = Str("4x1C+E") => out = Str("SDI")
              /\ v = Str("BUS DUCT") => out = Str("BD")
              /\ v \notin {Str("4C+E"), Str("4x1C+E"), Str("BUS DUCT")} => out = v
    /\ \A r \in 1..(Len(cols[Col("installationMethod")]) - 1) :
          LET m == PyIndex(IN_[12], r - 1)
              out == cols[Col("installationMethod")][r + 1]
          IN  /\ m = Str("LADDER, SPACED") => out = Str("L")
              /\ m = Str("PERFORATED TRAY, TOUCHING") => out = Str("PT")
              /\ m = Str("IN UNDERGROUND WIRING ENCLOSURE") => out = Str("C")
              /\ m \notin {Str("LADDER, SPACED"), Str("PERFORATED TRAY, TOUCHING"),
                           Str("IN UNDERGROUND WIRING ENCLOSURE")} => out = m
    /\ AllAligned => pc # "error"

\* C3 witness: OUT holds a row whose cable type was substituted and whose
\* installation method, a key with a leading blank, passed through, and a row
\* whose cable type, a key in lower case, passed through.
C3_Witness ==
    /\ OUT.assigned /\ Len(OUT.value) = 3
    /\ OUT.value[2][Col("cableType")] = Str("Multi")
    /\ OUT.value[2][Col("installationMethod")] = Str(" LADDER, SPACED")
    /\ OUT.value[3][Col("cableType")] = Str("4c+e")
    /\ OUT.value[3][Col("installationMethod")] = Str("PT")

\* C4: the rows of the output are exactly the rows that pass the blank-row
\* filter, unchanged: the csv rows of the Hello.py output file are the passing
\* rows read so far, and the records of the PowerCAD_EFLI.py table are the
\* passing data rows read so far, value for value (less U+FEFF).
C4_BlankRowFilter ==
    /\ script = "Hello" /\ pc # "open" => OutRows = SelectSeq(consumed, Passes)
    /\ script = "PowerCAD_EFLI" /\ CsvLoading /\ table.exists =>
          table.records = Stripped(SelectSeq(DataRows, Passes))

\* C5: DynamoScript assigns OUT only when every input list that the populate
\* loop indexes has the length of indexList.
C5_FailFast == OUT.assigned => AllAligned

\* C6: where a row gets a filter decision, nothing else is done with the row
\* before the decision, and nothing else is done at all with a row that the
\* filter drops.
C6_FilterFirst ==
    \A k \in 1..Len(events) :
       LET n == events[k][2] IN
       /\ events[k][1] # "filter"
       /\ \E j \in 1..Len(events) : events[j] = <<"filter", n>>
       => /\ \E j \in 1..(k - 1) : events[j] = <<"filter", n>>
          /\ Passes(consumed[n])

\* C7: the rules give the same result on their own output: a lookup applied
\* to any value the populate loop has stored returns that value, and a second
\* run of the Hello.py copy, reading the file the first run wrote, never fails
\* and leaves an output file equal to that file.
C7_Idempotent ==
    /\ script = "DynamoScript" =>
          /\ \A r \in 2..Len(cols[Col("cableType")]) :
                CableTypeLookup(cols[Col("cableType")][r]) = cols[Col("cableType")][r]
          /\ \A r \in 2..Len(cols[Col("installationMethod")]) :
                InstallationMethodLookup(cols[Col("installationMethod")][r])
                   = cols[Col("installationMethod")][r]
    /\ script = "Hello" /\ run = 2 =>
          /\ pc # "error"
          /\ pc \in {"createdb", "done"} => outfile.text = prevOut.text

\* C8: no column name and no stored value of the table contains U+FEFF; a
\* first header field of U+FEFF followed by "Cable Code" names the column
\* "Cable Code"; and a field of a stored row that holds no U+FEFF (and no
\* apostrophe, which the SQL text gives a meaning of its own) is stored as
\* it was read.
C8_BOMStripped ==
    script = "PowerCAD_EFLI" /\ CsvLoading /\ table.exists =>
    /\ \A j \in 1..Len(table.columns) : \A c \in 1..Len(table.columns[j]) :
          table.columns[j][c] # BOM
    /\ \A k \in 1..Len(table.records) : \A j \in 1..Len(table.records[k]) :
          \A c \in 1..Len(table.records[k][j]) : table.records[k][j][c] # BOM
    /\ consumed[1][1] = <<BOM>> \o CableCode => table.columns[1] = CableCode
    /\ \A j \in 1..Len(consumed[1]) :
          (\A c \in 1..Len(consumed[1][j]) : consumed[1][j][c] \notin {BOM, Apostrophe})
          => table.columns[j] = consumed[1][j]
    /\ LET kept == SelectSeq(DataRows, Passes) IN
       \A k \in 1..Len(table.records) : \A j \in 1..Len(kept[k]) :
          (\A c \in 1..Len(kept[k][j]) : kept[k][j][c] \notin {BOM, Apostrophe})
          => table.records[k][j] = kept[k][j]

\* C8 witness: the table was created from a header whose first field is
\* U+FEFF followed by "Cable Code", and holds a record of a row that had a
\* U+FEFF in one field and none in another.
C8_Witness ==
    /\ script = "PowerCAD_EFLI" /\ pc = "query" /\ table.exists
    /\ consumed[1][1] = <<BOM>> \o CableCode
    /\ Len(consumed) = 2 /\ Len(table.records) = 1
    /\ \E j \in 1..Len(consumed[2]) : \E c \in 1..Len(consumed[2][j]) :
          consumed[2][j][c] = BOM
    /\ table.records[1][1] = consumed[2][1]

\* C9: once the first row is read the table exists, its column names are the
\* header fields in header order, and its records are the data rows that
\* pass the blank-row filter, in input order, each value equal to the field
\* of the row (less U+FEFF); and a step never removes or changes a record.
C9_Loader ==
    /\ script = "PowerCAD_EFLI" /\ CsvLoading /\ consumed # <<>> =>
          /\ table.exists
          /\ table.name = "cableSchedule"
          /\ table.columns = Stripped(<<consumed[1]>>)[1]
          /\ table.records = Stripped(SelectSeq(DataRows, Passes))
          /\ \A k \in 1..Len(table.records) :
                Len(table.records[k]) = Len(table.columns)

\* C10: the column lists have equal lengths after the header step and after
\* every iteration, every record of OUT has 30 fields with the header record
\* first, a constant field holds its literal, and a copied field of output
\* row r holds element r - 1 of its input list, the inputs IN[5], IN[13] and
\* IN[15] included when they are lists.
C10_RowAligned ==
    script = "DynamoScript" /\ pc # "error" =>
    /\ \A c, d \in Columns : Len(cols[c]) = Len(cols[d])
    /\ OUT.assigned =>
          /\ \A r \in 1..Len(OUT.value) : Len(OUT.value[r]) = 30
          /\ OUT.value[1] = [c \in Columns |-> Str(Rules[c].header)]
    /\ \A c \in Columns : \A r \in 2..Len(cols[c]) :
          /\ Rules[c].kind = "const" => cols[c][r] = Str(Rules[c].lit)
          /\ Rules[c].kind \in {"copy", "whole"}
             /\ IN_[Rules[c].src].tag = "list"
             /\ r - 1 <= PyLen(IN_[Rules[c].src])
             => cols[c][r] = PyIndex(IN_[Rules[c].src], r - 2)

\* ------------------------------------------------------- specification
Init == InitDynamoScript \/ InitHello \/ InitPowerCAD \/ InitTimesheet

Next ==
    \/ AddHeader \/ Populate \/ Combine
    \/ HelloOpen \/ HelloCopyRow \/ HelloCopyEnd \/ HelloCreateDb \/ HelloRunAgain
    \/ PowerCADOpen \/ PowerCADLoadRow \/ PowerCADLoadEnd \/ PowerCADQuery
    \/ CleanDrop \/ CleanDayOfWeek \/ CleanReorder \/ CleanSort

Spec == Init /\ [][Next]_vars
====
